---- MODULE Spec2Model ----
(***************************************************************************)
(* Portfolio ledger, portfolio snapshot and analysis cache of the          *)
(* portfolio and market insight platform (backend/app).                    *)
(*                                                                         *)
(* Money is counted in cents (the scale of the Numeric(15, 2) columns),    *)
(* quantities in whole units, gain/loss percent in 1/10000 of a percent    *)
(* (the scale of the Numeric(8, 4) column).  A value written to a numeric  *)
(* column is rounded to the column's scale, half away from zero, and a     *)
(* value that does not fit the column's precision fails the commit.        *)
(*                                                                         *)
(* Every db.commit() of the code ends one step of the model: the state     *)
(* between two steps of a request is what any other session reads.         *)
(***************************************************************************)
EXTENDS Integers, Sequences, FiniteSets, TLC

(***************************************************************************)
(* Bounds of the model.                                                    *)
(***************************************************************************)
MaxOps == 3          \* add_operation and update_portfolio_prices calls in one behaviour
MaxQty == 3          \* units held in one position
MaxNow == 24         \* hours the clock runs
MaxRequests == 2     \* rows of the analysis_requests table
MaxRows == 2         \* analyses rows a lookup is tried against
MaxScopeRows == 11   \* analyses rows of one scope an invalidation is tried against

Symbols == {"AAA", "BBB"}
Quantities == 1..2
Prices == {1, 102}
FeeValues == {0}
Fees == {0, 5}
InvalidNumerics ==
  {[quantity |-> 0, price |-> 1, fees |-> 0], [quantity |-> -1, price |-> 1, fees |-> 0],
   [quantity |-> 1, price |-> 0, fees |-> 0], [quantity |-> 1, price |-> 1, fees |-> -1]}
Notes == {"note"}
Names == {"main", " other "}
Reqs == {1}
AnalysisReqs == {1, 2}

VARIABLES
  positions,    \* portfolio_assets rows: asset_symbol -> [quantity, average_price, current_price]
  snapshot,     \* the portfolios row: total_value, total_cost, total_gain_loss, total_gain_loss_percent
  operations,   \* operations rows, in insertion order
  pc,           \* where each request stands
  call,         \* the service method the request is running
  op,           \* the Operation a request is registering
  loaded,       \* what get_position returned to the request
  pending,      \* current_price changes of a refresh not yet committed
  todo,         \* positions a refresh has still to visit
  result,       \* how the request's call ended
  before,       \* positions and snapshot when the call began
  history,      \* per symbol: the BUYs since the position was opened
  refreshes,    \* bulk price refreshes started so far
  portfolio,    \* the portfolios row: whether it exists, and its name
  inserted,     \* operations rows inserted so far; their ids are 1..inserted
  edits,        \* update_operation and update_portfolio calls that wrote so far
  analyses,           \* analyses rows, in insertion order
  analysis_requests,  \* analysis_requests rows, in insertion order
  now,                \* datetime.utcnow(), in hours
  schema,             \* whether the analysis tables enforce the declared column types
  args,               \* the arguments of a request's analysis call, and its request row
  returned,           \* the analyses row a request's call returned (0: none)
  attempted,          \* the entry a request's call built to store
  computed            \* what a request's indicator call returned or raised

ledgerVars == <<positions, snapshot, operations, op, loaded, pending, todo,
                before, history, refreshes, portfolio, inserted, edits>>
analysisVars == <<analyses, analysis_requests, now, schema, args, returned, attempted,
                  computed>>
vars == <<positions, snapshot, operations, pc, call, op, loaded, pending, todo,
          result, before, history, refreshes, portfolio, inserted, edits,
          analyses, analysis_requests, now, schema, args, returned, attempted,
          computed>>

(***************************************************************************)
(* Numeric columns.                                                        *)
(***************************************************************************)
Abs(x) == IF x < 0 THEN -x ELSE x

\* a / b rounded to an integer, half away from zero (b > 0)
RoundDiv(a, b) ==
  LET q == Abs(a) \div b
      r == Abs(a) % b
      m == IF 2 * r >= b THEN q + 1 ELSE q
  IN IF a < 0 THEN -m ELSE m

\* largest magnitude of a Numeric(8, 4) column, in 1/10000: 9999.9999
PercentLimit == 100000000

\* percent (two decimals of a ratio) in 1/10000 of a percent
PercentScale == 1000000

ZeroSnapshot ==
  [total_value |-> 0, total_cost |-> 0, total_gain_loss |-> 0,
   total_gain_loss_percent |-> 0]

NoOperation ==
  [id |-> 0, asset_symbol |-> "", operation_type |-> "", quantity |-> 0, price |-> 0,
   fees |-> 0, total_amount |-> 0, notes |-> ""]
NewPortfolio == [exists |-> TRUE, name |-> "main"]

NoRow == [found |-> FALSE, quantity |-> 0, average_price |-> 0, current_price |-> 0]

NoHistory == [pure |-> FALSE, n |-> 0, sumq |-> 0, sumqp |-> 0, closed |-> FALSE]

NoRows == [s \in {} |-> 0]

NoBefore == [positions |-> NoRows, snapshot |-> ZeroSnapshot]
NoValue == ""
NoArgs == [kind |-> NoValue, id |-> NoValue, force |-> FALSE, request |-> 0,
           close_prices |-> <<>>, parameters |-> <<>>]
NoEntry == [put |-> FALSE, analysis_text |-> NoValue, technical_indicators |-> NoValue,
            expires_at |-> 0, order |-> 0]

\* what a function answers: None or a value; how a call ends: it returns or raises
None == [none |-> TRUE, value |-> 0]
Some(v) == [none |-> FALSE, value |-> v]
Returns(v) == [raised |-> FALSE, value |-> v]
Raises(error) == [raised |-> TRUE, value |-> error]
NoOutcome == Returns(None)

RECURSIVE SumOver(_, _)
SumOver(f, S) ==
  IF S = {} THEN 0
  ELSE LET s == CHOOSE x \in S : TRUE IN f[s] + SumOver(f, S \ {s})

\* PortfolioAsset.calculate_position_value
calculate_position_value(p) == p.quantity * p.current_price

\* gain / cost * 100 as the total_gain_loss_percent column stores it: the
\* quotient in units of 1/10000 %, by long division three digits at a time
gain_loss_percent(gain, cost) ==
  LET a == Abs(gain)
      whole == a \div cost
      r0 == a % cost
      thousandths == (r0 * 1000) \div cost
      r1 == (r0 * 1000) % cost
      m == whole * PercentScale + thousandths * 1000 + RoundDiv(r1 * 1000, cost)
  IN IF gain < 0 THEN -m ELSE m

\* calculate_metrics with total_value summed at the average price
calculate_metrics_cost_as_value(assets) ==
  LET open == {s \in DOMAIN assets : assets[s].quantity > 0}
      total_cost == SumOver([s \in open |-> assets[s].quantity * assets[s].average_price], open)
  IN [total_value |-> total_cost, total_cost |-> total_cost,
      total_gain_loss |-> 0, total_gain_loss_percent |-> 0]

\* Portfolio.calculate_metrics over the rows `assets`, as the portfolios row
\* holds it once written
calculate_metrics(assets) ==
  LET open == {s \in DOMAIN assets : assets[s].quantity > 0}
      total_value == SumOver([s \in open |-> calculate_position_value(assets[s])], open)
      total_cost == SumOver([s \in open |-> assets[s].quantity * assets[s].average_price], open)
      gain == total_value - total_cost
  IN [total_value |-> total_value,
      total_cost |-> total_cost,
      total_gain_loss |-> gain,
      total_gain_loss_percent |->
        IF total_cost > 0 THEN gain_loss_percent(gain, total_cost) ELSE 0]

\* the portfolios row accepts the metrics: total_gain_loss_percent fits Numeric(8, 4)
FitsSnapshot(m) == Abs(m.total_gain_loss_percent) < PercentLimit

\* Operation.calculate_total
calculate_total(o) ==
  IF o.operation_type = "BUY"
  THEN o.quantity * o.price + o.fees
  ELSE o.quantity * o.price - o.fees

\* no request of `reqs` has begun
Idle(reqs) ==
  /\ pc = [r \in reqs |-> "idle"]
  /\ call = [r \in reqs |-> "none"]
  /\ op = [r \in reqs |-> NoOperation]
  /\ loaded = [r \in reqs |-> NoRow]
  /\ pending = [r \in reqs |-> NoRows]
  /\ todo = [r \in reqs |-> {}]
  /\ result = [r \in reqs |-> "none"]
  /\ before = [r \in reqs |-> NoBefore]
  /\ args = [r \in reqs |-> NoArgs]
  /\ returned = [r \in reqs |-> 0]
  /\ attempted = [r \in reqs |-> NoEntry]
  /\ computed = [r \in reqs |-> NoOutcome]

\* a new portfolio, an empty operation log and empty analysis tables
Init ==
  /\ Idle(Reqs)
  /\ positions = NoRows
  /\ snapshot = ZeroSnapshot
  /\ operations = <<>>
  /\ history = [s \in Symbols |-> NoHistory]
  /\ refreshes = 0
  /\ portfolio = NewPortfolio
  /\ inserted = 0
  /\ edits = 0
  /\ analyses = <<>>
  /\ analysis_requests = <<>>
  /\ now = 0
  /\ schema = "declared"

(***************************************************************************)
(* PortfolioRepository                                                     *)
(***************************************************************************)

\* get_position: the row of (portfolio, symbol), or none
get_position(rows, sym) ==
  IF sym \in DOMAIN rows
  THEN [found |-> TRUE, quantity |-> rows[sym].quantity,
        average_price |-> rows[sym].average_price,
        current_price |-> rows[sym].current_price]
  ELSE NoRow

\* create_or_update_position: upsert of the row; average_price arrives as the
\* quotient cost / units and is stored at the scale of its column
create_or_update_position(rows, sym, quantity, cost, units, current_price) ==
  [s \in DOMAIN rows \cup {sym} |->
     IF s = sym
     THEN [quantity |-> quantity,
           average_price |-> RoundDiv(cost, units),
           current_price |-> current_price]
     ELSE rows[s]]

\* delete_position that finds no row to delete
delete_position_keeps_row(rows, sym) == rows

\* delete_position: removes the row when it exists
delete_position(rows, sym) ==
  [s \in DOMAIN rows \ {sym} |-> rows[s]]

(***************************************************************************)
(* PortfolioService._update_position_from_operation, after get_position    *)
(***************************************************************************)

\* the SELL check without the comparison of quantities
sell_rejected_no_quantity_check(o, position) ==
  /\ o.operation_type = "SELL"
  /\ ~position.found

\* a SELL that the position read cannot cover raises ValueError
sell_rejected(o, position) ==
  /\ o.operation_type = "SELL"
  /\ (~position.found \/ position.quantity < o.quantity)

\* a BUY on an existing position that takes the plain mean of the two prices
update_position_plain_mean(rows, o, position) ==
  IF o.operation_type = "BUY"
  THEN IF position.found
       THEN create_or_update_position(rows, o.asset_symbol,
              position.quantity + o.quantity,
              position.average_price + o.price, 2, o.price)
       ELSE create_or_update_position(rows, o.asset_symbol,
              o.quantity, o.price, 1, o.price)
  ELSE IF position.quantity - o.quantity = 0
       THEN delete_position(rows, o.asset_symbol)
       ELSE create_or_update_position(rows, o.asset_symbol,
              position.quantity - o.quantity,
              position.average_price, 1, o.price)

\* a SELL that writes the sale price as the average price
update_position_sell_reprices(rows, o, position) ==
  IF o.operation_type = "BUY"
  THEN IF position.found
       THEN create_or_update_position(rows, o.asset_symbol,
              position.quantity + o.quantity,
              position.quantity * position.average_price + o.quantity * o.price,
              position.quantity + o.quantity,
              o.price)
       ELSE create_or_update_position(rows, o.asset_symbol,
              o.quantity, o.price, 1, o.price)
  ELSE IF position.quantity - o.quantity = 0
       THEN delete_position(rows, o.asset_symbol)
       ELSE create_or_update_position(rows, o.asset_symbol,
              position.quantity - o.quantity,
              o.price, 1, o.price)

\* a SELL of the whole position that keeps the row, at quantity 0
update_position_keeps_empty_row(rows, o, position) ==
  IF o.operation_type = "BUY"
  THEN IF position.found
       THEN create_or_update_position(rows, o.asset_symbol,
              position.quantity + o.quantity,
              position.quantity * position.average_price + o.quantity * o.price,
              position.quantity + o.quantity,
              o.price)
       ELSE create_or_update_position(rows, o.asset_symbol,
              o.quantity, o.price, 1, o.price)
  ELSE create_or_update_position(rows, o.asset_symbol,
         position.quantity - o.quantity,
         position.average_price, 1, o.price)

\* a BUY whose fees enter the cost of the position
update_position_costs_fees(rows, o, position) ==
  IF o.operation_type = "BUY"
  THEN IF position.found
       THEN create_or_update_position(rows, o.asset_symbol,
              position.quantity + o.quantity,
              position.quantity * position.average_price + o.quantity * o.price + o.fees,
              position.quantity + o.quantity,
              o.price)
       ELSE create_or_update_position(rows, o.asset_symbol,
              o.quantity, o.quantity * o.price + o.fees, o.quantity, o.price)
  ELSE IF position.quantity - o.quantity = 0
       THEN delete_position(rows, o.asset_symbol)
       ELSE create_or_update_position(rows, o.asset_symbol,
              position.quantity - o.quantity,
              position.average_price, 1,
              o.price)

\* the rows after the operation is applied to the position read
update_position_from_operation(rows, o, position) ==
  IF o.operation_type = "BUY"
  THEN IF position.found
       THEN create_or_update_position(rows, o.asset_symbol,
              position.quantity + o.quantity,
              position.quantity * position.average_price + o.quantity * o.price,
              position.quantity + o.quantity,
              o.price)
       ELSE create_or_update_position(rows, o.asset_symbol,
              o.quantity, o.price, 1, o.price)
  ELSE IF position.quantity - o.quantity = 0
       THEN delete_position(rows, o.asset_symbol)
       ELSE create_or_update_position(rows, o.asset_symbol,
              position.quantity - o.quantity,
              position.average_price, 1,
              o.price)

\* the BUYs that built the position of a symbol, for the claims on sequences
record_history(h, o, position) ==
  IF o.operation_type = "BUY"
  THEN IF position.found
       THEN IF h.pure
            THEN [h EXCEPT !.n = h.n + 1, !.sumq = h.sumq + o.quantity,
                           !.sumqp = h.sumqp + o.quantity * o.price]
            ELSE h
       ELSE [pure |-> TRUE, n |-> 1, sumq |-> o.quantity,
             sumqp |-> o.quantity * o.price, closed |-> h.closed]
  ELSE [NoHistory EXCEPT !.closed = h.closed \/ position.quantity = o.quantity]

Held(sym) == IF sym \in DOMAIN positions THEN positions[sym].quantity ELSE 0

(***************************************************************************)
(* PortfolioService.add_operation, one step per commit                     *)
(***************************************************************************)

\* an operations table without CHECK constraints
check_constraints_none(o) == TRUE

\* the CHECK constraints of the operations table
check_constraints(o) ==
  /\ o.quantity > 0
  /\ o.price > 0
  /\ o.fees >= 0

\* the Operation is built and operation_repo.create commits it; an INSERT the
\* table refuses (a CHECK constraint, the foreign key to a portfolio that is
\* gone) is rolled back and raises IntegrityError
add_operation_create(r, sym, type, quantity, price, fees) ==
  /\ pc[r] = "idle"
  /\ inserted + refreshes + edits < MaxOps
  /\ type = "BUY" => Held(sym) + quantity <= MaxQty
  /\ LET o == [id |-> inserted + 1, asset_symbol |-> sym, operation_type |-> type,
               quantity |-> quantity, price |-> price, fees |-> fees,
               total_amount |-> 0, notes |-> NoValue]
         created == [o EXCEPT !.total_amount = calculate_total(o)]
     IN /\ op' = [op EXCEPT ![r] = created]
        /\ IF portfolio.exists /\ check_constraints(created)
           THEN /\ operations' = Append(operations, created)
                /\ inserted' = inserted + 1
                /\ pc' = [pc EXCEPT ![r] = "created"]
                /\ UNCHANGED result
           ELSE /\ pc' = [pc EXCEPT ![r] = "done"]
                /\ result' = [result EXCEPT ![r] = "IntegrityError"]
                /\ UNCHANGED <<operations, inserted>>
  /\ before' = [before EXCEPT ![r] = [positions |-> positions, snapshot |-> snapshot]]
  /\ call' = [call EXCEPT ![r] = "add_operation"]
  /\ UNCHANGED <<positions, snapshot, loaded, pending, todo, history, refreshes>>
  /\ UNCHANGED <<portfolio, edits>>
  /\ UNCHANGED analysisVars

\* _update_position_from_operation reads the position; a SELL it cannot cover
\* raises ValueError and ends the call
add_operation_read(r) ==
  /\ pc[r] = "created"
  /\ LET position == get_position(positions, op[r].asset_symbol)
     IN /\ loaded' = [loaded EXCEPT ![r] = position]
        /\ IF sell_rejected(op[r], position)
           THEN /\ pc' = [pc EXCEPT ![r] = "done"]
                /\ result' = [result EXCEPT ![r] = "ValueError"]
           ELSE /\ pc' = [pc EXCEPT ![r] = "read"]
                /\ UNCHANGED result
  /\ UNCHANGED <<positions, snapshot, operations, call, op, pending, todo,
                 before, history, refreshes>>
  /\ UNCHANGED <<portfolio, inserted, edits>>
  /\ UNCHANGED analysisVars

\* the position is upserted or deleted and committed
add_operation_apply(r) ==
  /\ pc[r] = "read"
  /\ positions' = update_position_from_operation(positions, op[r], loaded[r])
  /\ history' = [history EXCEPT ![op[r].asset_symbol] =
                   record_history(@, op[r], loaded[r])]
  /\ pc' = [pc EXCEPT ![r] = "applied"]
  /\ UNCHANGED <<snapshot, operations, call, op, loaded, pending, todo,
                 result, before, refreshes>>
  /\ UNCHANGED <<portfolio, inserted, edits>>
  /\ UNCHANGED analysisVars

\* calculate_portfolio_metrics: recompute over the rows and commit
add_operation_metrics(r) ==
  /\ pc[r] = "applied"
  /\ LET m == calculate_metrics(positions)
     IN IF FitsSnapshot(m)
        THEN /\ snapshot' = m
             /\ result' = [result EXCEPT ![r] = "ok"]
        ELSE /\ UNCHANGED snapshot
             /\ result' = [result EXCEPT ![r] = "DataError"]
  /\ pc' = [pc EXCEPT ![r] = "done"]
  /\ UNCHANGED <<positions, operations, call, op, loaded, pending, todo,
                 before, history, refreshes>>
  /\ UNCHANGED <<portfolio, inserted, edits>>
  /\ UNCHANGED analysisVars

(***************************************************************************)
(* MarketDataService.update_portfolio_prices                               *)
(***************************************************************************)

\* the rows as the refreshing session sees them
with_pending(rows, changes) ==
  [s \in DOMAIN rows |->
     IF s \in DOMAIN changes
     THEN [rows[s] EXCEPT !.current_price = changes[s]]
     ELSE rows[s]]

\* get_with_positions loads the portfolio and its positions; without a
\* portfolio the call answers 0
update_portfolio_prices_load(r) ==
  /\ pc[r] = "idle"
  /\ inserted + refreshes + edits < MaxOps
  /\ IF portfolio.exists
     THEN /\ refreshes' = refreshes + 1
          /\ todo' = [todo EXCEPT ![r] = DOMAIN positions]
          /\ pending' = [pending EXCEPT ![r] = NoRows]
          /\ before' = [before EXCEPT ![r] =
                          [positions |-> positions, snapshot |-> snapshot]]
          /\ pc' = [pc EXCEPT ![r] = "refreshing"]
          /\ UNCHANGED result
     ELSE /\ pc' = [pc EXCEPT ![r] = "done"]
          /\ result' = [result EXCEPT ![r] = "not found"]
          /\ UNCHANGED <<refreshes, todo, pending, before>>
  /\ call' = [call EXCEPT ![r] = "update_portfolio_prices"]
  /\ UNCHANGED <<positions, snapshot, operations, op, loaded, history>>
  /\ UNCHANGED <<portfolio, inserted, edits>>
  /\ UNCHANGED analysisVars

\* one turn of the loop: get_current_price answers `price` (0: no price) and
\* may commit the session on its way (asset registered, price row saved)
update_portfolio_prices_position(r, sym, price, committed) ==
  /\ pc[r] = "refreshing"
  /\ sym \in todo[r]
  /\ todo' = [todo EXCEPT ![r] = @ \ {sym}]
  /\ LET flushed == IF committed THEN NoRows ELSE pending[r]
     IN pending' = [pending EXCEPT ![r] =
          IF price # 0 /\ positions[sym].quantity > 0
          THEN [s \in DOMAIN flushed \cup {sym} |->
                  IF s = sym THEN price ELSE flushed[s]]
          ELSE flushed]
  /\ positions' = IF committed THEN with_pending(positions, pending[r]) ELSE positions
  /\ UNCHANGED <<snapshot, operations, pc, call, op, loaded, result, before,
                 history, refreshes>>
  /\ UNCHANGED <<portfolio, inserted, edits>>
  /\ UNCHANGED analysisVars

\* calculate_metrics over the session's positions and the final commit
update_portfolio_prices_commit(r) ==
  /\ pc[r] = "refreshing"
  /\ todo[r] = {}
  /\ LET view == with_pending(positions, pending[r])
         m == calculate_metrics(view)
     IN IF FitsSnapshot(m)
        THEN /\ positions' = view
             /\ snapshot' = m
             /\ result' = [result EXCEPT ![r] = "ok"]
        ELSE /\ UNCHANGED <<positions, snapshot>>
             /\ result' = [result EXCEPT ![r] = "DataError"]
  /\ pending' = [pending EXCEPT ![r] = NoRows]
  /\ pc' = [pc EXCEPT ![r] =
              IF call[r] = "update_portfolio_prices" THEN "done" ELSE "refreshed"]
  /\ UNCHANGED <<operations, call, op, loaded, todo, before, history, refreshes>>
  /\ UNCHANGED <<portfolio, inserted, edits>>
  /\ UNCHANGED analysisVars

(***************************************************************************)
(* PUT /operations/{id}, PortfolioService.update_portfolio and             *)
(* PortfolioService.delete_portfolio                                       *)
(***************************************************************************)

\* operation_repo.get_by_id: where the row with this id is (0: nowhere)
get_operation(rows, id) ==
  IF \E i \in DOMAIN rows : rows[i].id = id
  THEN CHOOSE i \in DOMAIN rows : rows[i].id = id
  ELSE 0

\* as update_operation_notes, with the total of the row reset
update_operation_notes_resets_total(rows, id, notes) ==
  [rows EXCEPT ![get_operation(rows, id)] =
     [@ EXCEPT !.notes = notes, !.total_amount = 0]]

\* operation.notes = notes, committed
update_operation_notes(rows, id, notes) ==
  [rows EXCEPT ![get_operation(rows, id)].notes = notes]

\* the PUT handler: 404 without the row; notes left out change nothing
update_operation(r, id, notes) ==
  /\ pc[r] = "idle"
  /\ inserted + refreshes + edits < MaxOps
  /\ IF get_operation(operations, id) = 0
     THEN /\ result' = [result EXCEPT ![r] = "not found"]
          /\ UNCHANGED <<operations, edits>>
     ELSE IF notes = NoValue
     THEN /\ result' = [result EXCEPT ![r] = "ok"]
          /\ UNCHANGED <<operations, edits>>
     ELSE /\ operations' = update_operation_notes(operations, id, notes)
          /\ edits' = edits + 1
          /\ result' = [result EXCEPT ![r] = "ok"]
  /\ pc' = [pc EXCEPT ![r] = "done"]
  /\ call' = [call EXCEPT ![r] = "update_operation"]
  /\ UNCHANGED <<positions, snapshot, op, loaded, pending, todo, before, history,
                 refreshes, portfolio, inserted>>
  /\ UNCHANGED analysisVars

\* name.strip()
strip(name) == IF name = " other " THEN "other" ELSE name

\* portfolio.name = name.strip(), committed; None without the portfolio
update_portfolio(r, name) ==
  /\ pc[r] = "idle"
  /\ inserted + refreshes + edits < MaxOps
  /\ IF portfolio.exists
     THEN /\ portfolio' = [portfolio EXCEPT !.name = strip(name)]
          /\ edits' = edits + 1
          /\ result' = [result EXCEPT ![r] = "ok"]
     ELSE /\ result' = [result EXCEPT ![r] = "not found"]
          /\ UNCHANGED <<portfolio, edits>>
  /\ pc' = [pc EXCEPT ![r] = "done"]
  /\ call' = [call EXCEPT ![r] = "update_portfolio"]
  /\ UNCHANGED <<positions, snapshot, operations, op, loaded, pending, todo, before,
                 history, refreshes, inserted>>
  /\ UNCHANGED analysisVars

\* db.delete(portfolio), committed: the delete cascades over Portfolio.assets
\* and Portfolio.operations; False without the portfolio
delete_portfolio(r) ==
  /\ pc[r] = "idle"
  /\ IF portfolio.exists
     THEN /\ portfolio' = [portfolio EXCEPT !.exists = FALSE]
          /\ positions' = NoRows
          /\ operations' = <<>>
          /\ snapshot' = ZeroSnapshot
          /\ history' = [s \in Symbols |-> NoHistory]
          /\ result' = [result EXCEPT ![r] = "ok"]
     ELSE /\ result' = [result EXCEPT ![r] = "not found"]
          /\ UNCHANGED <<portfolio, positions, operations, snapshot, history>>
  /\ pc' = [pc EXCEPT ![r] = "done"]
  /\ call' = [call EXCEPT ![r] = "delete_portfolio"]
  /\ UNCHANGED <<op, loaded, pending, todo, before, refreshes, inserted, edits>>
  /\ UNCHANGED analysisVars

\* the request ends and its session is closed
finish(r) ==
  /\ pc[r] = "done"
  /\ pc' = [pc EXCEPT ![r] = "idle"]
  /\ call' = [call EXCEPT ![r] = "none"]
  /\ op' = [op EXCEPT ![r] = NoOperation]
  /\ loaded' = [loaded EXCEPT ![r] = NoRow]
  /\ result' = [result EXCEPT ![r] = "none"]
  /\ before' = [before EXCEPT ![r] = NoBefore]
  /\ args' = [args EXCEPT ![r] = NoArgs]
  /\ returned' = [returned EXCEPT ![r] = 0]
  /\ attempted' = [attempted EXCEPT ![r] = NoEntry]
  /\ computed' = [computed EXCEPT ![r] = NoOutcome]
  /\ UNCHANGED <<positions, snapshot, operations, pending, todo, history, refreshes,
                 portfolio, inserted, edits,
                 analyses, analysis_requests, now, schema>>

Next ==
  \E r \in Reqs :
    \/ \E sym \in Symbols, type \in {"BUY", "SELL"}, quantity \in Quantities,
          price \in Prices, fees \in FeeValues :
         add_operation_create(r, sym, type, quantity, price, fees)
    \/ \E sym \in Symbols, type \in {"BUY", "SELL"}, bad \in InvalidNumerics :
         add_operation_create(r, sym, type, bad.quantity, bad.price, bad.fees)
    \/ add_operation_read(r)
    \/ add_operation_apply(r)
    \/ add_operation_metrics(r)
    \/ update_portfolio_prices_load(r)
    \/ \E sym \in Symbols, price \in Prices \cup {0}, committed \in BOOLEAN :
         update_portfolio_prices_position(r, sym, price, committed)
    \/ update_portfolio_prices_commit(r)
    \/ \E id \in 1..MaxOps, notes \in Notes \cup {NoValue} : update_operation(r, id, notes)
    \/ \E name \in Names : update_portfolio(r, name)
    \/ delete_portfolio(r)
    \/ finish(r)

Spec == Init /\ [][Next]_vars

\* add_operation alone on one symbol, with and without fees
FeeNext ==
  \E r \in Reqs :
    \/ \E sym \in {"AAA"}, type \in {"BUY", "SELL"}, quantity \in Quantities,
          price \in Prices, fees \in Fees :
         add_operation_create(r, sym, type, quantity, price, fees)
    \/ add_operation_read(r)
    \/ add_operation_apply(r)
    \/ add_operation_metrics(r)
    \/ finish(r)

FeeSpec == Init /\ [][FeeNext]_vars

(***************************************************************************)
(* Analysis cache: the analyses and analysis_requests tables.  Times are   *)
(* whole hours.  schema = "declared" is a database holding the tables as   *)
(* models/analysis.py declares them (enum columns, NOT NULL); "lax" is one *)
(* that takes any string and NULL in them.                                 *)
(***************************************************************************)

CACHE_TTL_HOURS == 24
MinHistory == 30
RecentLimit == 10

Schemas == {"declared", "lax"}
AnalysisType == {"PORTFOLIO", "ASSET"}
AnalysisStatus == {"PENDING", "COMPLETED", "FAILED"}
SymbolInputs == {"AAA", "aaa"}
Texts == {"T1", "T2"}
Indicators == {"S1", "S2"}
HistoryWindow == 100
Today == 100
StoredBars == {{}, 1..29, 1..100}
FedBars == {{}, 1..100}
TickHours == {12}

\* str.upper on the symbols a request can carry
upper(symbol) == IF symbol = "aaa" THEN "AAA" ELSE symbol

\* the columns and relationships Analysis declares, and the keyword arguments
\* the service passes to its constructor
AnalysisColumns ==
  {"id", "analysis_type", "portfolio_id", "asset_symbol", "analysis_text",
   "technical_indicators", "generated_at", "expires_at", "created_at",
   "updated_at", "portfolio"}
AnalysisKwargs ==
  {"portfolio_id", "asset_symbol", "analysis_type", "analysis_text",
   "technical_indicators", "generated_at", "expires_at", "cached"}

\* a constructor that takes any keyword argument
constructor_accepts_any(kwargs) == TRUE

\* the declarative constructor raises TypeError on a keyword argument that is
\* not an attribute of the mapped class
constructor_accepts(kwargs) == kwargs \subseteq AnalysisColumns

\* the attributes of PortfolioAsset, and the ones generate_portfolio_analysis
\* reads of each open position
PortfolioAssetAttributes ==
  {"id", "portfolio_id", "asset_symbol", "quantity", "average_price",
   "current_price", "created_at", "updated_at", "portfolio",
   "calculate_position_value", "calculate_position_gain_loss",
   "calculate_position_gain_loss_percent"}
PositionReads ==
  {"asset_symbol", "quantity", "current_value", "total_cost", "gain_loss",
   "gain_loss_percent"}

\* the analysis_requests table takes the row
request_row_accepted(row) ==
  \/ schema = "lax"
  \/ /\ row.analysis_type \in AnalysisType
     /\ row.status \in AnalysisStatus

\* the comparison analysis_type = <literal> is one the analyses table can evaluate
type_comparable(analysis_type) ==
  \/ schema = "lax"
  \/ analysis_type \in AnalysisType

\* get_cached_analysis without the filter on analysis_type
get_cached_analysis_any_type(table, at, portfolio_id, asset_symbol, analysis_type) ==
  {i \in DOMAIN table :
     /\ table[i].expires_at > at
     /\ portfolio_id # NoValue => table[i].portfolio_id = portfolio_id
     /\ asset_symbol # NoValue => table[i].asset_symbol = upper(asset_symbol)}

\* AnalysisRepository.get_cached_analysis: the rows query.first() can answer
\* with (the query has no ORDER BY); the empty set when it answers None
get_cached_analysis(table, at, portfolio_id, asset_symbol, analysis_type) ==
  {i \in DOMAIN table :
     /\ table[i].expires_at > at
     /\ portfolio_id # NoValue => table[i].portfolio_id = portfolio_id
     /\ asset_symbol # NoValue => table[i].asset_symbol = upper(asset_symbol)
     /\ analysis_type # NoValue => table[i].analysis_type = analysis_type}

\* the sets of rows .order_by(generated_at.desc()).limit(limit).all() can
\* answer with, out of the rows `matching`
most_recent(table, matching, limit) ==
  {chosen \in SUBSET matching :
     /\ Cardinality(chosen) = IF Cardinality(matching) < limit
                              THEN Cardinality(matching) ELSE limit
     /\ \A i \in chosen, j \in matching \ chosen :
          table[i].generated_at >= table[j].generated_at}

\* get_by_portfolio and get_by_asset, limit = 10
get_by_portfolio(table, portfolio_id) ==
  most_recent(table, {i \in DOMAIN table : table[i].portfolio_id = portfolio_id},
              RecentLimit)
get_by_asset(table, asset_symbol) ==
  most_recent(table, {i \in DOMAIN table : table[i].asset_symbol = upper(asset_symbol)},
              RecentLimit)

\* the analysis_type literal and the scope columns of a call
TypeLiteral(kind) == IF kind = "ASSET" THEN "asset_technical" ELSE "portfolio_overview"
PortfolioArg(a) == IF a.kind = "PORTFOLIO" THEN a.id ELSE NoValue
AssetArg(a) == IF a.kind = "ASSET" THEN a.id ELSE NoValue

\* end_request that returns without writing the status
end_request_leaves_status(r, status, how) ==
  /\ UNCHANGED analysis_requests
  /\ pc' = [pc EXCEPT ![r] = "done"]
  /\ result' = [result EXCEPT ![r] = how]

\* request.status = status; self.db.commit(); return None
end_request(r, status, how) ==
  /\ analysis_requests' = [analysis_requests EXCEPT ![args[r].request].status = status]
  /\ pc' = [pc EXCEPT ![r] = "done"]
  /\ result' = [result EXCEPT ![r] = how]

\* the head of both generate methods: is_available, then the cache lookup
\* unless force_regenerate
cache_step(r, name, kind, id, force, available) ==
  /\ pc[r] = "idle"
  /\ Len(analysis_requests) + Cardinality({q \in DOMAIN pc : pc[q] = "looked"})
       < MaxRequests
  /\ call' = [call EXCEPT ![r] = name]
  /\ LET a == [kind |-> kind, id |-> id, force |-> force, request |-> 0,
               close_prices |-> <<>>, parameters |-> <<>>]
     IN /\ args' = [args EXCEPT ![r] = a]
        /\ IF ~available
           THEN /\ pc' = [pc EXCEPT ![r] = "done"]
                /\ result' = [result EXCEPT ![r] = "unavailable"]
                /\ UNCHANGED returned
           ELSE IF force
           THEN /\ pc' = [pc EXCEPT ![r] = "looked"]
                /\ UNCHANGED <<result, returned>>
           ELSE IF ~type_comparable(TypeLiteral(kind))
           THEN /\ pc' = [pc EXCEPT ![r] = "done"]
                /\ result' = [result EXCEPT ![r] = "DataError"]
                /\ UNCHANGED returned
           ELSE LET hits == get_cached_analysis(analyses, now, PortfolioArg(a),
                                                AssetArg(a), TypeLiteral(kind))
                IN IF hits = {}
                   THEN /\ pc' = [pc EXCEPT ![r] = "looked"]
                        /\ UNCHANGED <<result, returned>>
                   ELSE /\ \E i \in hits : returned' = [returned EXCEPT ![r] = i]
                        /\ pc' = [pc EXCEPT ![r] = "done"]
                        /\ result' = [result EXCEPT ![r] = "cached"]
  /\ UNCHANGED <<computed, ledgerVars, analyses, analysis_requests, now, schema, attempted>>

generate_asset_analysis_lookup(r, symbol, force, available) ==
  cache_step(r, "generate_asset_analysis", "ASSET", upper(symbol), force, available)

generate_portfolio_analysis_lookup(r, portfolio_id, force, available) ==
  cache_step(r, "generate_portfolio_analysis", "PORTFOLIO", portfolio_id, force, available)

\* AnalysisRequest(status="processing") is added and committed
generate_analysis_request(r) ==
  /\ pc[r] = "looked"
  /\ LET row == [user_id |-> "u1", analysis_type |-> NoValue,
                 portfolio_id |-> PortfolioArg(args[r]),
                 asset_symbol |-> AssetArg(args[r]), status |-> "processing"]
     IN IF request_row_accepted(row)
        THEN /\ analysis_requests' = Append(analysis_requests, row)
             /\ args' = [args EXCEPT ![r].request = Len(analysis_requests) + 1]
             /\ pc' = [pc EXCEPT ![r] = "requested"]
             /\ UNCHANGED result
        ELSE /\ pc' = [pc EXCEPT ![r] = "done"]
             /\ result' = [result EXCEPT ![r] = "IntegrityError"]
             /\ UNCHANGED <<analysis_requests, args>>
  /\ UNCHANGED <<computed, ledgerVars, call, analyses, now, schema, returned, attempted>>

\* the entry is built, added and committed with the request completed; a
\* constructor that raises ends the request failed
store_step(r, text, indicators) ==
  LET entry == [analysis_type |-> TypeLiteral(args[r].kind),
                portfolio_id |-> PortfolioArg(args[r]),
                asset_symbol |-> AssetArg(args[r]),
                analysis_text |-> text,
                technical_indicators |-> indicators,
                generated_at |-> now,
                expires_at |-> now + CACHE_TTL_HOURS]
  IN /\ attempted' = [attempted EXCEPT ![r] =
                        [put |-> TRUE, analysis_text |-> text,
                         technical_indicators |-> indicators,
                         expires_at |-> now + CACHE_TTL_HOURS,
                         order |-> 1 + Cardinality({q \in DOMAIN attempted :
                                                     attempted[q].put})]]
     /\ IF constructor_accepts(AnalysisKwargs)
        THEN /\ analyses' = Append(analyses, entry)
             /\ returned' = [returned EXCEPT ![r] = Len(analyses) + 1]
             /\ end_request(r, "completed", "generated")
        ELSE /\ end_request(r, "failed", "TypeError")
             /\ UNCHANGED <<analyses, returned>>

\* .order_by(AssetPrice.timestamp.asc()): the bars, each named by its day,
\* oldest first
order_by_timestamp_asc(bars) ==
  [i \in 1..Cardinality(bars) |->
     CHOOSE d \in bars : Cardinality({e \in bars : e < d}) = i - 1]

\* AssetRepository.get_historical_prices: the bars of the last `days` days
stored_historical_prices(bars, days) ==
  order_by_timestamp_asc({d \in bars : d >= Today - days})

\* AlphaVantageClient.get_daily_prices: prices.sort(reverse=True), newest first
get_daily_prices(bars) ==
  LET ascending == order_by_timestamp_asc(bars)
  IN [i \in DOMAIN ascending |-> ascending[Len(ascending) + 1 - i]]

\* MarketDataService.get_historical_prices: the stored bars when there are
\* `days` of them, else the feed's first `days` bars are saved and the table
\* is read again; the close of each bar stands as the bar's day
get_historical_prices(stored, fed, days) ==
  LET cached_prices == stored_historical_prices(stored, days)
      prices_data == get_daily_prices(fed)
      saved == {prices_data[i] : i \in {j \in DOMAIN prices_data : j <= days}}
  IN IF Len(cached_prices) >= days THEN cached_prices
     ELSE IF fed = {} THEN cached_prices
     ELSE stored_historical_prices(stored \cup saved, days)

\* what get_historical_prices(symbol, days=100) can answer
PriceHistories ==
  {get_historical_prices(stored, fed, HistoryWindow) :
     stored \in StoredBars, fed \in FedBars}

\* generate_asset_analysis after the request row: price history, indicators,
\* narrative, then the store; every way out commits the request's status
generate_asset_analysis_store(r, price_history, text, indicators) ==
  /\ pc[r] = "requested"
  /\ call[r] = "generate_asset_analysis"
  /\ IF Len(price_history) < MinHistory
     THEN /\ end_request(r, "failed", "no history")
          /\ UNCHANGED <<analyses, returned, attempted, args>>
     ELSE /\ args' = [args EXCEPT ![r].close_prices = price_history]
          /\ IF text = NoValue
             THEN /\ end_request(r, "failed", "no narrative")
                  /\ UNCHANGED <<analyses, returned, attempted>>
             ELSE store_step(r, text, indicators)
  /\ UNCHANGED <<computed, ledgerVars, call, now, schema>>

\* the portfolio a request can name that exists
Portfolios == {"p1"}
PortfolioInputs == {"p1", "p2"}

\* generate_portfolio_analysis after the request row: get_with_positions; a
\* portfolio that is missing or has no positions fails the request, else
\* update_portfolio_prices begins
generate_portfolio_analysis_positions(r) ==
  /\ pc[r] = "requested"
  /\ call[r] = "generate_portfolio_analysis"
  /\ IF args[r].id \notin Portfolios \/ DOMAIN positions = {}
     THEN /\ end_request(r, "failed", "no positions")
          /\ UNCHANGED <<todo, pending, before>>
     ELSE /\ todo' = [todo EXCEPT ![r] = DOMAIN positions]
          /\ pending' = [pending EXCEPT ![r] = NoRows]
          /\ before' = [before EXCEPT ![r] =
                          [positions |-> positions, snapshot |-> snapshot]]
          /\ pc' = [pc EXCEPT ![r] = "refreshing"]
          /\ UNCHANGED <<analysis_requests, result>>
  /\ UNCHANGED <<positions, snapshot, operations, op, loaded, history, refreshes,
                 portfolio, inserted, edits,
                 call, analyses, now, schema, args, returned, attempted, computed>>

\* generate_portfolio_analysis after the refresh: the payload of the open
\* positions is read, the narrative generated and the entry stored
generate_portfolio_analysis_store(r, text) ==
  /\ pc[r] = "refreshed"
  /\ IF result[r] = "DataError"
     THEN /\ end_request(r, "failed", "DataError")
          /\ UNCHANGED <<analyses, returned, attempted>>
     ELSE IF /\ \E s \in DOMAIN positions : positions[s].quantity > 0
             /\ ~(PositionReads \subseteq PortfolioAssetAttributes)
     THEN /\ end_request(r, "failed", "AttributeError")
          /\ UNCHANGED <<analyses, returned, attempted>>
     ELSE IF text = NoValue
     THEN /\ end_request(r, "failed", "no narrative")
          /\ UNCHANGED <<analyses, returned, attempted>>
     ELSE store_step(r, text,
            [total_positions |-> Cardinality({s \in DOMAIN positions :
                                               positions[s].quantity > 0}),
             total_value |-> snapshot.total_value,
             performance |-> snapshot.total_gain_loss_percent])
  /\ UNCHANGED <<computed, ledgerVars, call, now, schema, args>>

\* Analysis.is_expired: datetime.utcnow() > self.expires_at
is_expired(row, at) == at > row.expires_at

\* the rows of `rows` expired as of `at`
expire(table, rows, at) ==
  [i \in DOMAIN table |->
     IF i \in rows THEN [table[i] EXCEPT !.expires_at = at] ELSE table[i]]

\* AnalysisService.invalidate_cache: the answers of get_by_portfolio and of
\* get_by_asset get expires_at = utcnow(), then one commit; returned[r] is
\* the count it answers
invalidate_cache(r, portfolio_id, asset_symbol) ==
  /\ pc[r] = "idle"
  /\ \E first \in (IF portfolio_id # NoValue
                   THEN get_by_portfolio(analyses, portfolio_id) ELSE {{}}) :
       \E second \in (IF asset_symbol # NoValue
                      THEN get_by_asset(analyses, asset_symbol) ELSE {{}}) :
         /\ analyses' = expire(analyses, first \cup second, now)
         /\ returned' = [returned EXCEPT ![r] = Cardinality(first) + Cardinality(second)]
  /\ call' = [call EXCEPT ![r] = "invalidate_cache"]
  /\ pc' = [pc EXCEPT ![r] = "done"]
  /\ result' = [result EXCEPT ![r] = "invalidated"]
  /\ UNCHANGED <<computed, ledgerVars, analysis_requests, now, schema, args, attempted>>

\* time passes
Tick(hours) ==
  /\ now + hours <= MaxNow
  /\ now' = now + hours
  /\ UNCHANGED <<computed, ledgerVars, pc, call, result, analyses, analysis_requests,
                 schema, args, returned, attempted>>

\* the steps of request r that a portfolio without positions allows
LookupStep(r) ==
  \/ \E symbol \in SymbolInputs, force \in BOOLEAN, available \in BOOLEAN :
       generate_asset_analysis_lookup(r, symbol, force, available)
  \/ \E portfolio_id \in PortfolioInputs, force \in BOOLEAN, available \in BOOLEAN :
       generate_portfolio_analysis_lookup(r, portfolio_id, force, available)
  \/ generate_analysis_request(r)
  \/ \E price_history \in PriceHistories, text \in Texts \cup {NoValue},
        indicators \in Indicators :
       generate_asset_analysis_store(r, price_history, text, indicators)
  \/ generate_portfolio_analysis_positions(r)
  \/ \E portfolio_id \in Portfolios \cup {NoValue},
        asset_symbol \in SymbolInputs \cup {NoValue} :
       invalidate_cache(r, portfolio_id, asset_symbol)
  \/ finish(r)

\* the steps of request r
AnalysisStep(r) ==
  \/ LookupStep(r)
  \/ \E sym \in Symbols, price \in Prices \cup {0}, committed \in BOOLEAN :
       update_portfolio_prices_position(r, sym, price, committed)
  \/ update_portfolio_prices_commit(r)
  \/ \E text \in Texts \cup {NoValue} : generate_portfolio_analysis_store(r, text)

AnalysisNext ==
  \/ \E r \in AnalysisReqs : AnalysisStep(r)
  \/ \E hours \in TickHours : Tick(hours)

LookupNext == \E r \in Reqs : LookupStep(r)

\* the ledger after one BUY, as add_operation leaves it
FirstBuy ==
  [id |-> 1, asset_symbol |-> "AAA", operation_type |-> "BUY", quantity |-> 1,
   price |-> 102, fees |-> 0, total_amount |-> 102, notes |-> ""]
Funded ==
  /\ positions = update_position_from_operation(NoRows, FirstBuy, NoRow)
  /\ snapshot = calculate_metrics(positions)
  /\ operations = <<FirstBuy>>
  /\ history = [s \in Symbols |->
                  IF s = "AAA" THEN record_history(NoHistory, FirstBuy, NoRow)
                  ELSE NoHistory]
  /\ refreshes = 0
  /\ portfolio = NewPortfolio
  /\ inserted = 1
  /\ edits = 0
Unfunded ==
  /\ positions = NoRows
  /\ snapshot = ZeroSnapshot
  /\ operations = <<>>
  /\ history = [s \in Symbols |-> NoHistory]
  /\ refreshes = 0
  /\ portfolio = NewPortfolio
  /\ inserted = 0
  /\ edits = 0

\* concurrent requests against analysis tables that start empty
AnalysisInit ==
  /\ Idle(AnalysisReqs)
  /\ Funded \/ Unfunded
  /\ analyses = <<>>
  /\ analysis_requests = <<>>
  /\ now = 0
  /\ schema \in Schemas

AnalysisSpec == AnalysisInit /\ [][AnalysisNext]_vars

\* the analyses rows a lookup is tried against
TypeValues(kind_of_schema) ==
  IF kind_of_schema = "declared" THEN AnalysisType
  ELSE {"asset_technical", "portfolio_overview"}
StoredRows(kind_of_schema) ==
  [analysis_type : TypeValues(kind_of_schema),
   portfolio_id : Portfolios \cup {NoValue},
   asset_symbol : {"AAA", NoValue},
   analysis_text : {"T1"},
   technical_indicators : {"S1"},
   generated_at : {0},
   expires_at : {12, 24}]
Tables(kind_of_schema) ==
  UNION {[1..n -> StoredRows(kind_of_schema)] : n \in 0..MaxRows}

\* one request at a time against any stored rows, some of them expiring now
LookupInit ==
  /\ Idle(Reqs)
  /\ Unfunded
  /\ schema \in Schemas
  /\ analyses \in Tables(schema)
  /\ analysis_requests = <<>>
  /\ now = 12

LookupSpec == LookupInit /\ [][LookupNext]_vars

\* one request at a time against a table that holds up to MaxScopeRows rows
\* of one scope, stored one after the other
ScopeTables(kind_of_schema) ==
  {[i \in 1..n |-> [row EXCEPT !.generated_at = i]] :
     n \in 0..MaxScopeRows, row \in StoredRows(kind_of_schema)}

InvalidateInit ==
  /\ Idle(Reqs)
  /\ Unfunded
  /\ schema \in Schemas
  /\ analyses \in ScopeTables(schema)
  /\ analysis_requests = <<>>
  /\ now = 12

InvalidateSpec == InvalidateInit /\ [][LookupNext]_vars

(***************************************************************************)
(* Two requests registering operations on one symbol side by side.  Each   *)
(* request has its own session, the endpoint takes no lock, and the        *)
(* database runs at READ COMMITTED: a session reads what is committed when *)
(* it reads, and writes the row it computed from what it read.             *)
(***************************************************************************)

LedgerReqs == {1, 2}

\* create_or_update_position of a first BUY whose query found no row while
\* another session's INSERT of the same (portfolio, symbol) was still
\* uncommitted: the commit violates uq_portfolio_asset
add_operation_apply_conflict(r) ==
  /\ pc[r] = "read"
  /\ op[r].operation_type = "BUY"
  /\ ~loaded[r].found
  /\ op[r].asset_symbol \in DOMAIN positions
  /\ pc' = [pc EXCEPT ![r] = "done"]
  /\ result' = [result EXCEPT ![r] = "IntegrityError"]
  /\ UNCHANGED <<positions, snapshot, operations, call, op, loaded, pending, todo,
                 before, history, refreshes>>
  /\ UNCHANGED <<portfolio, inserted, edits>>
  /\ UNCHANGED analysisVars

ConcurrentInit ==
  /\ Idle(LedgerReqs)
  /\ Funded \/ Unfunded
  /\ analyses = <<>>
  /\ analysis_requests = <<>>
  /\ now = 0
  /\ schema = "declared"

\* one add_operation per request, both on the same symbol
ConcurrentNext ==
  \E r \in LedgerReqs :
    \/ \E sym \in {"AAA"}, type \in {"BUY", "SELL"}, quantity \in Quantities,
          price \in Prices, fees \in FeeValues :
         add_operation_create(r, sym, type, quantity, price, fees)
    \/ add_operation_read(r)
    \/ add_operation_apply(r)
    \/ add_operation_apply_conflict(r)
    \/ add_operation_metrics(r)

ConcurrentSpec == ConcurrentInit /\ [][ConcurrentNext]_vars

(***************************************************************************)
(* TechnicalIndicators.  A series is a sequence of closes in whole units,  *)
(* prices[1] the element the code calls prices[0].  A float is held on a   *)
(* grid of 1 / Scale: an operation rounds its exact result to the grid,    *)
(* and where no number is the result it answers nan or an infinity, as the *)
(* float64 arithmetic of pandas does.  Only the division of two Python     *)
(* floats raises on a zero divisor.                                        *)
(***************************************************************************)

Scale == 1000        \* the grid floats are held on: 1 / Scale

RsiPeriod == 14
MacdFastPeriod == 12
MacdSlowPeriod == 26
MacdSignalPeriod == 9
MovingAveragePeriods == {20, 50, 200}
VolatilityPeriod == 30
BollingerPeriod == 20
BollingerStdDev == 2
TrendPeriod == 20
ChangeBars == 30

NaN == [kind |-> "nan", v |-> 0]
Infinity(sign) == [kind |-> "inf", v |-> sign]
Number(v) == [kind |-> "num", v |-> v]
float(units) == Number(units * Scale)
Sign(x) == IF x < 0 THEN -1 ELSE 1

fneg(a) == IF a.kind = "nan" THEN NaN ELSE [a EXCEPT !.v = -a.v]

fadd(a, b) ==
  IF a.kind = "nan" \/ b.kind = "nan" THEN NaN
  ELSE IF a.kind = "inf" /\ b.kind = "inf" THEN IF a.v = b.v THEN a ELSE NaN
  ELSE IF a.kind = "inf" THEN a
  ELSE IF b.kind = "inf" THEN b
  ELSE Number(a.v + b.v)

fsub(a, b) == fadd(a, fneg(b))

fmul(a, b) ==
  IF a.kind = "nan" \/ b.kind = "nan" THEN NaN
  ELSE IF a.kind = "inf" \/ b.kind = "inf"
  THEN IF a.v = 0 \/ b.v = 0 THEN NaN ELSE Infinity(Sign(a.v) * Sign(b.v))
  ELSE Number(RoundDiv(a.v * b.v, Scale))

\* the division of two Series: a zero divisor gives inf or nan, no exception
fdiv(a, b) ==
  IF a.kind = "nan" \/ b.kind = "nan" THEN NaN
  ELSE IF b.kind = "inf" THEN IF a.kind = "inf" THEN NaN ELSE Number(0)
  ELSE IF a.kind = "inf" THEN Infinity(a.v * Sign(b.v))
  ELSE IF b.v = 0 THEN IF a.v = 0 THEN NaN ELSE Infinity(Sign(a.v))
  ELSE Number(Sign(b.v) * RoundDiv(a.v * Scale, Abs(b.v)))

\* the largest s of lo..hi with s * s <= x
RECURSIVE isqrt(_, _, _)
isqrt(x, lo, hi) ==
  IF lo = hi THEN lo
  ELSE LET mid == (lo + hi + 1) \div 2
       IN IF mid * mid <= x THEN isqrt(x, mid, hi) ELSE isqrt(x, lo, mid - 1)

fsqrt(a) ==
  IF a.kind = "nan" THEN NaN
  ELSE IF a.kind = "inf" THEN IF a.v > 0 THEN a ELSE NaN
  ELSE IF a.v < 0 THEN NaN
  ELSE Number(isqrt(a.v * Scale, 0, 46340))

\* pd.Series(prices[::-1]): the series in the order the code takes for
\* chronological
chronological(prices) ==
  [i \in 1..Len(prices) |-> float(prices[Len(prices) + 1 - i])]

\* Series.diff(): the first place has no difference
diff(series) ==
  [i \in DOMAIN series |-> IF i = 1 THEN NaN ELSE fsub(series[i], series[i - 1])]

\* delta.where(delta > 0, 0) and -delta.where(delta < 0, 0)
gain_of(delta) ==
  [i \in DOMAIN delta |->
     IF delta[i].kind # "nan" /\ delta[i].v > 0 THEN delta[i] ELSE Number(0)]
loss_of(delta) ==
  [i \in DOMAIN delta |->
     fneg(IF delta[i].kind # "nan" /\ delta[i].v < 0 THEN delta[i] ELSE Number(0))]

\* the sum of series[from .. to]
RECURSIVE fsum(_, _, _)
fsum(series, from, to) ==
  IF from > to THEN Number(0)
  ELSE IF from = to THEN series[from]
  ELSE LET mid == (from + to) \div 2
       IN fadd(fsum(series, from, mid), fsum(series, mid + 1, to))

\* series.rolling(window).mean().iloc[-1]
rolling_mean(series, window) ==
  LET n == Len(series)
  IN IF n < window THEN NaN
     ELSE fdiv(fsum(series, n - window + 1, n), float(window))

\* series.rolling(window).std().iloc[-1]: the sample deviation (ddof = 1),
\* nan unless the window holds more than one observation
rolling_std(series, window) ==
  LET n == Len(series)
      mean == rolling_mean(series, window)
      squares == [i \in DOMAIN series |->
                    fmul(fsub(series[i], mean), fsub(series[i], mean))]
  IN IF n < window \/ window <= 1 THEN NaN
     ELSE fsqrt(fdiv(fsum(squares, n - window + 1, n), float(window - 1)))

\* series.ewm(span=span, adjust=False).mean() over series[from .. to], the
\* value before `from` being `seed`: each value is alpha times the element
\* plus (1 - alpha) times the value before it
RECURSIVE ewm_from(_, _, _, _, _)
ewm_from(series, span, seed, from, to) ==
  LET alpha == fdiv(float(2), float(span + 1))
      mid == (from + to) \div 2
  IN IF from = to
     THEN <<fadd(fmul(fsub(float(1), alpha), seed), fmul(alpha, series[from]))>>
     ELSE LET head == ewm_from(series, span, seed, from, mid)
          IN head \o ewm_from(series, span, head[Len(head)], mid + 1, to)

\* the first value is the first element of the series
ewm(series, span) ==
  IF Len(series) = 1 THEN <<series[1]>>
  ELSE <<series[1]>> \o ewm_from(series, span, series[1], 2, Len(series))

\* no pandas operation of the try block raises on floats, so the except
\* branch is never taken
calculate_rsi(prices, period) ==
  IF Len(prices) < period + 1 THEN Returns(None)
  ELSE LET prices_series == chronological(prices)
           delta == diff(prices_series)
           avg_gain == rolling_mean(gain_of(delta), period)
           avg_loss == rolling_mean(loss_of(delta), period)
           rs == fdiv(avg_gain, avg_loss)
           rsi == fsub(float(100), fdiv(float(100), fadd(float(1), rs)))
       IN Returns(Some(rsi))

\* calculate_macd with the histogram taken as signal minus macd
calculate_macd_histogram_reversed(prices, fast_period, slow_period, signal_period) ==
  IF Len(prices) < slow_period + signal_period THEN Returns(None)
  ELSE LET prices_series == chronological(prices)
           n == Len(prices)
           ema_fast == ewm(prices_series, fast_period)
           ema_slow == ewm(prices_series, slow_period)
           macd_line == [i \in 1..n |-> fsub(ema_fast[i], ema_slow[i])]
           signal_line == ewm(macd_line, signal_period)
           histogram == [i \in 1..n |-> fsub(signal_line[i], macd_line[i])]
       IN Returns(Some([macd |-> macd_line[n], signal |-> signal_line[n],
                        histogram |-> histogram[n]]))

calculate_macd(prices, fast_period, slow_period, signal_period) ==
  IF Len(prices) < slow_period + signal_period THEN Returns(None)
  ELSE LET prices_series == chronological(prices)
           n == Len(prices)
           ema_fast == ewm(prices_series, fast_period)
           ema_slow == ewm(prices_series, slow_period)
           macd_line == [i \in 1..n |-> fsub(ema_fast[i], ema_slow[i])]
           signal_line == ewm(macd_line, signal_period)
           histogram == [i \in 1..n |-> fsub(macd_line[i], signal_line[i])]
       IN Returns(Some([macd |-> macd_line[n], signal |-> signal_line[n],
                        histogram |-> histogram[n]]))

\* the logarithm is not computed here: the answer is a float all the same
calculate_volatility(prices, period) ==
  IF Len(prices) < period + 1 THEN Returns(None) ELSE Returns(Some("value"))

calculate_bollinger_bands(prices, period, std_dev) ==
  IF Len(prices) < period THEN Returns(None)
  ELSE LET prices_series == chronological(prices)
           middle_band == rolling_mean(prices_series, period)
           std == rolling_std(prices_series, period)
           upper_band == fadd(middle_band, fmul(std, float(std_dev)))
           lower_band == fsub(middle_band, fmul(std, float(std_dev)))
       IN Returns(Some([upper |-> upper_band, middle |-> middle_band,
                        lower |-> lower_band]))

\* the sum of the `period` most recent closes
RECURSIVE window_sum(_, _)
window_sum(prices, period) ==
  IF period = 0 THEN 0 ELSE prices[period] + window_sum(prices, period - 1)

\* one mean per period the series is long enough for, as sum over window
calculate_moving_averages(prices, periods) ==
  Returns([period \in {p \in periods : Len(prices) >= p} |->
             [sum |-> window_sum(prices, period), window |-> period]])

\* diff_percent = ((current_price - ma_value) / ma_value) * 100, outside any
\* try: a mean of 0 raises ZeroDivisionError
analyze_trend(prices) ==
  IF Len(prices) < TrendPeriod THEN Returns("desconocido")
  ELSE LET ma == calculate_moving_averages(prices, {TrendPeriod}).value
           current_price == prices[1]
       IN IF DOMAIN ma = {} THEN Returns("desconocido")
          ELSE IF ma[TrendPeriod].sum = 0 THEN Raises("ZeroDivisionError")
          ELSE LET sum == ma[TrendPeriod].sum
                   excess == (current_price * TrendPeriod - sum) * 100
               IN IF excess > 2 * sum THEN Returns("alcista")
                  ELSE IF excess < -2 * sum THEN Returns("bajista")
                  ELSE Returns("lateral")

\* ((prices[0] / prices[29]) - 1) * 100
price_change(prices, bar) ==
  fmul(fsub(fdiv(float(prices[1]), float(prices[bar])), float(1)), float(100))

\* the dict of all indicators; prices[0] / prices[29] sits outside any try
calculate_all_indicators(prices) ==
  IF analyze_trend(prices).raised THEN analyze_trend(prices)
  ELSE IF Len(prices) >= ChangeBars /\ prices[ChangeBars] = 0
  THEN Raises("ZeroDivisionError")
  ELSE Returns(
         [rsi |-> calculate_rsi(prices, RsiPeriod).value,
          macd |-> calculate_macd(prices, MacdFastPeriod, MacdSlowPeriod,
                                  MacdSignalPeriod).value,
          moving_averages |-> calculate_moving_averages(prices, MovingAveragePeriods).value,
          volatility |-> calculate_volatility(prices, VolatilityPeriod).value,
          bollinger_bands |-> calculate_bollinger_bands(prices, BollingerPeriod,
                                                        BollingerStdDev).value,
          trend |-> analyze_trend(prices).value,
          current_price |-> IF prices = <<>> THEN None ELSE Some(float(prices[1])),
          price_change_30d |->
            IF Len(prices) >= ChangeBars
            THEN Some(price_change(prices, ChangeBars))
            ELSE None])

EngineFunctions ==
  {"calculate_rsi", "calculate_macd", "calculate_moving_averages",
   "calculate_volatility", "calculate_bollinger_bands", "analyze_trend",
   "calculate_all_indicators"}

\* how a call of the function `name` on the series ends
outcome(name, prices, parameters) ==
  CASE name = "calculate_rsi" -> calculate_rsi(prices, parameters[1])
    [] name = "calculate_macd" ->
         calculate_macd(prices, parameters[1], parameters[2], parameters[3])
    [] name = "calculate_volatility" -> calculate_volatility(prices, parameters[1])
    [] name = "calculate_bollinger_bands" ->
         calculate_bollinger_bands(prices, parameters[1], parameters[2])
    [] name = "analyze_trend" -> analyze_trend(prices)
    [] name = "calculate_moving_averages" ->
         calculate_moving_averages(prices, MovingAveragePeriods)
    [] name = "calculate_all_indicators" -> calculate_all_indicators(prices)

\* the keyword arguments a call is made with: the defaults and small periods
ParameterChoices(name) ==
  CASE name = "calculate_rsi" -> {<<RsiPeriod>>, <<2>>}
    [] name = "calculate_macd" ->
         {<<MacdFastPeriod, MacdSlowPeriod, MacdSignalPeriod>>, <<1, 2, 1>>}
    [] name = "calculate_volatility" -> {<<VolatilityPeriod>>}
    [] name = "calculate_bollinger_bands" ->
         {<<BollingerPeriod, BollingerStdDev>>, <<1, BollingerStdDev>>, <<2, 0>>, <<2, 1>>}
    [] OTHER -> {<<>>}

\* series of non-negative closes: empty, short, constant, with zeros
SeriesLengths == {0, 1, 15, 20, 29, 30}
ZeroPlaces == {{}, {1}, {30}, 1..20, 1..30}

\* series of positive closes, of the lengths about which the indicators'
\* history requirements turn: flat, one last gain, one last loss, and moving
LongLengths == {1, 2, 3, 14, 15, 16, 19, 20, 30, 31, 34, 35, 49, 50, 199, 200}
Shapes == {"flat", "gain", "loss", "zigzag", "saw"}
bar(shape, i) ==
  CASE shape = "flat" -> 5
    [] shape = "gain" -> IF i = 1 THEN 6 ELSE 5
    [] shape = "loss" -> IF i = 1 THEN 4 ELSE 5
    [] shape = "zigzag" -> 5 + (i % 2)
    [] shape = "saw" -> 1 + (i % 7)

EngineSeries ==
  {[i \in 1..n |-> IF i \in zeros THEN 0 ELSE 5] :
     n \in SeriesLengths, zeros \in ZeroPlaces}
  \cup {[i \in 1..n |-> bar(shape, i)] : n \in LongLengths, shape \in Shapes}

\* one call of an engine function on a series
engine_call(r, name, prices, parameters) ==
  /\ pc[r] = "idle"
  /\ call' = [call EXCEPT ![r] = name]
  /\ args' = [args EXCEPT ![r].close_prices = prices, ![r].parameters = parameters]
  /\ computed' = [computed EXCEPT ![r] = outcome(name, prices, parameters)]
  /\ result' = [result EXCEPT ![r] =
                  IF outcome(name, prices, parameters).raised
                  THEN outcome(name, prices, parameters).value
                  ELSE "returned"]
  /\ pc' = [pc EXCEPT ![r] = "done"]
  /\ UNCHANGED <<ledgerVars, analyses, analysis_requests, now, schema, returned,
                 attempted>>

EngineNext ==
  \E r \in Reqs :
    \/ \E name \in EngineFunctions, prices \in EngineSeries :
         \E parameters \in ParameterChoices(name) :
           engine_call(r, name, prices, parameters)
    \/ finish(r)

EngineSpec == Init /\ [][EngineNext]_vars

(***************************************************************************)
(* The ledger claims.  Spec runs one request at a time: at pc = "done" the *)
(* tables are as the call left them and before[r] is as the call found     *)
(* them.                                                                   *)
(***************************************************************************)

Done(r) == pc[r] = "done"
Symbol(r) == op[r].asset_symbol
HeldBefore(r) ==
  IF Symbol(r) \in DOMAIN before[r].positions
  THEN before[r].positions[Symbol(r)].quantity
  ELSE 0
Applied(r) ==
  /\ call[r] = "add_operation"
  /\ Done(r)
  /\ result[r] \in {"ok", "DataError"}

\* the numerics of an operation that the API schema would have refused
Invalid(o) == o.quantity <= 0 \/ o.price <= 0 \/ o.fees < 0

\* C1: add_operation is one atomic unit: in every committed state the stored
\* snapshot equals the recompute over the stored positions, and a call that
\* fails leaves the position table and the snapshot as it found them.
C1_AtomicUnit ==
  /\ snapshot = calculate_metrics(positions)
  /\ \A r \in Reqs :
       (call[r] = "add_operation" /\ Done(r) /\ result[r] # "ok")
         => /\ positions = before[r].positions
            /\ snapshot = before[r].snapshot

C3_AverageOfSequence ==
  \A s \in DOMAIN positions :
    history[s].pure
      => /\ positions[s].quantity = history[s].sumq
         /\ positions[s].average_price = RoundDiv(history[s].sumqp, history[s].sumq)

\* C3 amended: the position holds sum(qi) units; the first BUY sets quantity
\* and average price to the BUY's; each later BUY sets the average price to
\* (old.quantity * old.average_price + op.quantity * op.price) /
\* (old.quantity + op.quantity) rounded to the cent; after n BUYs the average
\* price is within (n - 1) half cents of sum(qi * pi) / sum(qi).
C3_AverageRoundedPerBuy ==
  /\ \A s \in DOMAIN positions :
       history[s].pure
         => /\ positions[s].quantity = history[s].sumq
            /\ 2 * Abs(positions[s].average_price * history[s].sumq - history[s].sumqp)
                 <= (history[s].n - 1) * history[s].sumq
  /\ \A r \in Reqs :
       (Applied(r) /\ op[r].operation_type = "BUY")
         => LET new == positions[Symbol(r)]
                old == before[r].positions[Symbol(r)]
            IN IF HeldBefore(r) = 0
               THEN /\ new.quantity = op[r].quantity
                    /\ new.average_price = op[r].price
               ELSE /\ new.quantity = old.quantity + op[r].quantity
                    /\ 2 * Abs(new.average_price * new.quantity
                               - (old.quantity * old.average_price
                                  + op[r].quantity * op[r].price))
                         <= new.quantity

C3_Witness ==
  \E s \in DOMAIN positions :
    /\ history[s].pure
    /\ history[s].n = 3
    /\ positions[s].average_price # RoundDiv(history[s].sumqp, history[s].sumq)

\* C4: a SELL of exactly the held quantity closes the position: no row of
\* the symbol is left, and a later BUY of the symbol opens a fresh position
\* whose average price is that BUY's price.
C4_FullSellCloses ==
  \A r \in Reqs :
    /\ (Applied(r) /\ op[r].operation_type = "SELL"
          /\ op[r].quantity = HeldBefore(r))
         => Symbol(r) \notin DOMAIN positions
    /\ (Applied(r) /\ op[r].operation_type = "BUY" /\ history[Symbol(r)].closed
          /\ HeldBefore(r) = 0)
         => /\ positions[Symbol(r)].quantity = op[r].quantity
            /\ positions[Symbol(r)].average_price = op[r].price

C4_Witness ==
  \E r \in Reqs :
    /\ Applied(r)
    /\ op[r].operation_type = "BUY"
    /\ history[Symbol(r)].closed
    /\ HeldBefore(r) = 0
    /\ \E i \in 1..Len(operations) :
         /\ operations[i].asset_symbol = Symbol(r)
         /\ operations[i].operation_type = "BUY"
         /\ operations[i].price # op[r].price

\* C5: a SELL of less than the held quantity takes exactly op.quantity off
\* the position and leaves its average price as it was, whatever the price
\* of the sale.
C5_PartialSellKeepsAverage ==
  \A r \in Reqs :
    (Applied(r) /\ op[r].operation_type = "SELL" /\ op[r].quantity < HeldBefore(r))
      => /\ Symbol(r) \in DOMAIN positions
         /\ positions[Symbol(r)].quantity = HeldBefore(r) - op[r].quantity
         /\ positions[Symbol(r)].average_price
              = before[r].positions[Symbol(r)].average_price

C5_Witness ==
  \E r \in Reqs :
    /\ Applied(r)
    /\ op[r].operation_type = "SELL"
    /\ op[r].quantity < HeldBefore(r)
    /\ op[r].price # before[r].positions[Symbol(r)].average_price

\* C6: no stored position has a negative or zero quantity, and every stored
\* position has an average price above zero.
C6_PositionsPositive ==
  \A s \in DOMAIN positions :
    /\ positions[s].quantity > 0
    /\ positions[s].average_price > 0

C6_Witness ==
  \E r \in Reqs :
    /\ Applied(r)
    /\ op[r].operation_type = "SELL"
    /\ Cardinality(DOMAIN positions) = 2
    /\ HeldBefore(r) > op[r].quantity

\* the recompute of C7, written from the claim
Scenario3 ==
  [s \in {"AAA", "BBB"} |->
     IF s = "AAA"
     THEN [quantity |-> 10, average_price |-> 10000, current_price |-> 11000]
     ELSE [quantity |-> 5, average_price |-> 5000, current_price |-> 4000]]

IsRecomputeOf(snap, rows) ==
  LET open == {s \in DOMAIN rows : rows[s].quantity > 0}
      cost == SumOver([s \in open |-> rows[s].quantity * rows[s].average_price], open)
      value == SumOver([s \in open |-> rows[s].quantity * rows[s].current_price], open)
  IN /\ snap.total_cost = cost
     /\ snap.total_value = value
     /\ snap.total_gain_loss = value - cost
     /\ IF cost > 0
        THEN 2 * Abs(snap.total_gain_loss_percent * cost
                     - (value - cost) * PercentScale) <= cost
        ELSE snap.total_gain_loss_percent = 0

KindOf(analysis_type) ==
  IF analysis_type \in {"ASSET", "asset_technical"} THEN "ASSET" ELSE "PORTFOLIO"
Valid(row) == now < row.expires_at
ScopeColumn(row, kind) == IF kind = "ASSET" THEN row.asset_symbol ELSE row.portfolio_id
Generates(r) == call[r] \in {"generate_asset_analysis", "generate_portfolio_analysis"}

\* C8: a lookup that generate_asset_analysis or generate_portfolio_analysis
\* makes for (kind K, id I) never returns an entry of another kind, even when
\* a valid entry of another kind carries I as its scope id.
C8_LookupKeepsKind ==
  \A r \in Reqs :
    (Generates(r) /\ Done(r) /\ result[r] = "cached")
      => /\ returned[r] \in DOMAIN analyses
         /\ KindOf(analyses[returned[r]].analysis_type) = args[r].kind
         /\ ScopeColumn(analyses[returned[r]], args[r].kind) = args[r].id

C8_Witness ==
  \E r \in Reqs :
    /\ Generates(r)
    /\ Done(r)
    /\ result[r] = "cached"
    /\ \E i \in DOMAIN analyses :
         /\ Valid(analyses[i])
         /\ KindOf(analyses[i].analysis_type) # args[r].kind
         /\ ScopeColumn(analyses[i], args[r].kind) = args[r].id

\* the valid entries of (kind, id)
ValidEntries(kind, id) ==
  {i \in DOMAIN analyses :
     /\ Valid(analyses[i])
     /\ KindOf(analyses[i].analysis_type) = kind
     /\ ScopeColumn(analyses[i], kind) = id}

C10_PutThenGet ==
  \A r \in AnalysisReqs :
    (Generates(r) /\ Done(r) /\ attempted[r].put /\ now < attempted[r].expires_at)
      => LET hits == get_cached_analysis(analyses, now, PortfolioArg(args[r]),
                                         AssetArg(args[r]), TypeLiteral(args[r].kind))
         IN /\ hits # {}
            /\ \A i \in hits :
                 /\ analyses[i].analysis_text = attempted[r].analysis_text
                 /\ analyses[i].technical_indicators = attempted[r].technical_indicators

\* C11: when two generate calls store entries for the same (kind, id), the
\* first with payload P1 and the second, forced while the first is still
\* unexpired, with payload P2, every lookup for that (kind, id) made before
\* expiry returns P2 and never P1.
C11_PutOverwrites ==
  \A r, q \in AnalysisReqs :
    ( /\ r # q
      /\ Generates(r) /\ Done(r) /\ attempted[r].put
      /\ Generates(q) /\ Done(q) /\ attempted[q].put
      /\ args[q].force
      /\ attempted[r].order < attempted[q].order
      /\ args[r].kind = args[q].kind
      /\ args[r].id = args[q].id
      /\ now < attempted[r].expires_at
      /\ now < attempted[q].expires_at )
      => LET hits == get_cached_analysis(analyses, now, PortfolioArg(args[q]),
                                         AssetArg(args[q]), TypeLiteral(args[q].kind))
         IN /\ hits # {}
            /\ \A i \in hits :
                 /\ analyses[i].analysis_text = attempted[q].analysis_text
                 /\ analyses[i].technical_indicators = attempted[q].technical_indicators

\* C12: an entry stored at time t has expires_at = t + 24h; absent
\* invalidation and newer entries, a lookup for its (kind, id) returns it at
\* every now < expires_at and is a miss at every now >= expires_at.
C12_ValidUntilExpiry ==
  \A r \in AnalysisReqs :
    (Generates(r) /\ Done(r) /\ attempted[r].put)
      => LET hits == get_cached_analysis(analyses, now, PortfolioArg(args[r]),
                                         AssetArg(args[r]), TypeLiteral(args[r].kind))
         IN IF now < attempted[r].expires_at
            THEN /\ hits # {}
                 /\ \A i \in hits :
                      /\ analyses[i].expires_at = attempted[r].expires_at
                      /\ analyses[i].expires_at = analyses[i].generated_at + CACHE_TTL_HOURS
            ELSE hits = {}

\* the rows of `table` that belong to the scope of a portfolio id or of an
\* asset symbol
InScope(table, portfolio_id, asset_symbol) ==
  {i \in DOMAIN table :
     \/ portfolio_id # NoValue /\ table[i].portfolio_id = portfolio_id
     \/ asset_symbol # NoValue /\ table[i].asset_symbol = upper(asset_symbol)}

Invoked(r) == Done(r) /\ result[r] \in {"no narrative", "TypeError", "generated"}

C15_LogAppendOnly ==
  \A id \in 1..inserted : \E i \in DOMAIN operations : operations[i].id = id

\* C16: update_operation (PUT /operations/{id}) changes at most the notes of
\* the operation: type, asset_symbol, quantity, price, fees and total_amount
\* of every operation, every position and the snapshot are as before.
C16_UpdateKeepsFinancials ==
  [][(\E r \in Reqs : pc[r] = "idle" /\ call'[r] = "update_operation")
       => /\ positions' = positions
          /\ snapshot' = snapshot
          /\ DOMAIN operations' = DOMAIN operations
          /\ \A i \in DOMAIN operations :
               operations'[i] = [operations[i] EXCEPT !.notes = operations'[i].notes]]_vars

C16_Witness ==
  \E r \in Reqs :
    /\ Done(r)
    /\ call[r] = "update_operation"
    /\ result[r] = "ok"
    /\ positions # NoRows
    /\ \E i \in DOMAIN operations : operations[i].notes # NoValue

\* the operation of request r, registered with other fees
WithFees(r, fees) ==
  LET o == [op[r] EXCEPT !.fees = fees]
  IN [o EXCEPT !.total_amount = calculate_total(o)]

\* C17: fees never influence the ledger: an operation registered with other
\* fees, all else equal, is accepted or rejected alike and leaves the same
\* position (quantity, average_price, current_price) and the same snapshot;
\* only total_amount differs, q * p + fees for a BUY and q * p - fees for a
\* SELL.
C17_FeesOffLedger ==
  \A r \in Reqs, fees \in Fees :
    (call[r] = "add_operation" /\ Done(r) /\ result[r] # "IntegrityError")
      => LET other == WithFees(r, fees)
             base == op[r].quantity * op[r].price
         IN /\ sell_rejected(other, loaded[r]) <=> result[r] = "ValueError"
            /\ result[r] # "ValueError"
                 => /\ positions = update_position_from_operation(
                                      before[r].positions, other, loaded[r])
                    /\ result[r] = "ok" => snapshot = calculate_metrics(positions)
                    /\ result[r] # "ok" => snapshot = before[r].snapshot
            /\ result[r] = "ValueError"
                 => positions = before[r].positions /\ snapshot = before[r].snapshot
            /\ op[r].total_amount =
                 IF op[r].operation_type = "BUY" THEN base + op[r].fees
                 ELSE base - op[r].fees
            /\ other.total_amount - op[r].total_amount =
                 IF op[r].operation_type = "BUY" THEN fees - op[r].fees
                 ELSE op[r].fees - fees

C17_Witness ==
  \E r \in Reqs :
    /\ Applied(r)
    /\ op[r].fees > 0
    /\ op[r].operation_type = "BUY"
    /\ loaded[r].found
    /\ result[r] = "ok"

C19_SeriesNewestFirst ==
  \A r \in AnalysisReqs :
    LET close_prices == args[r].close_prices
    IN \A i \in DOMAIN close_prices :
         i + 1 \in DOMAIN close_prices => close_prices[i] > close_prices[i + 1]

\* C20: no IndicatorEngine function raises, whatever series of non-negative
\* numbers it is given (empty, constant, with zeros): each of calculate_rsi,
\* calculate_macd, calculate_moving_averages, calculate_volatility,
\* calculate_bollinger_bands, analyze_trend and calculate_all_indicators
\* returns a value or the unavailable marker.
C20_EngineNeverRaises ==
  \A r \in Reqs :
    (call[r] \in EngineFunctions /\ Done(r))
      => ~computed[r].raised

(***************************************************************************)
(* The indicator engine claims, under EngineSpec: one call at a time, the  *)
(* series and the keyword arguments in args, what the call answered in     *)
(* computed.                                                               *)
(***************************************************************************)

Called(r, name) == call[r] = name /\ Done(r)
Series(r) == args[r].close_prices

\* what calculate_all_indicators reports, read against the length n alone
AvailableByHistory(indicators, n) ==
  /\ ~indicators.rsi.none <=> n >= 15
  /\ ~indicators.macd.none <=> n >= 35
  /\ ~indicators.volatility.none <=> n >= 31
  /\ ~indicators.bollinger_bands.none <=> n >= 20
  /\ indicators.trend # "desconocido" <=> n >= 20
  /\ DOMAIN indicators.moving_averages = {p \in {20, 50, 200} : n >= p}

\* C21: calculate_all_indicators on a series of length n returns, as a normal
\* result, a set in which an indicator is available exactly when its history
\* requirement is met: rsi iff n >= 15, macd iff n >= 35, volatility iff
\* n >= 31, bollinger_bands iff n >= 20, trend other than unknown iff
\* n >= 20, moving_averages holding exactly the periods p of {20, 50, 200}
\* with n >= p.
C21_AvailableByHistory ==
  \A r \in Reqs :
    Called(r, "calculate_all_indicators")
      => /\ ~computed[r].raised
         /\ AvailableByHistory(computed[r].value, Len(Series(r)))

Positive(prices) == \A i \in DOMAIN prices : prices[i] > 0
Period(r) == args[r].parameters[1]

\* a float that is a number between the whole numbers lo and hi
Within(x, lo, hi) == x.kind = "num" /\ lo * Scale <= x.v /\ x.v <= hi * Scale

\* C22: on every series of positive prices of length >= period + 1,
\* calculate_rsi returns a number r with 0 <= r <= 100: never nan, an
\* infinity or None.
C22_RsiWithinRange ==
  \A r \in Reqs :
    (/\ Called(r, "calculate_rsi")
     /\ Positive(Series(r))
     /\ Len(Series(r)) >= Period(r) + 1)
      => /\ ~computed[r].raised
         /\ ~computed[r].value.none
         /\ Within(computed[r].value.value, 0, 100)

\* the change into each of the `period` most recent bars
RecentDeltas(prices, period) == [i \in 1..period |-> prices[i] - prices[i + 1]]

\* C23: calculate_rsi on a series of length >= period + 1 answers exactly 100
\* when the last `period` deltas hold no loss and at least one gain, and
\* exactly 50 when they are all zero (average gain and average loss both 0).
C23_RsiZeroLoss ==
  \A r \in Reqs :
    (Called(r, "calculate_rsi") /\ Len(Series(r)) >= Period(r) + 1)
      => LET delta == RecentDeltas(Series(r), Period(r))
             none_lost == \A i \in DOMAIN delta : delta[i] >= 0
             some_gained == \E i \in DOMAIN delta : delta[i] > 0
             rsi == computed[r].value
         IN /\ (none_lost /\ some_gained)
                 => ~rsi.none /\ rsi.value = float(100)
            /\ (\A i \in DOMAIN delta : delta[i] = 0)
                 => ~rsi.none /\ rsi.value = float(50)

\* line is the exponential moving average of series: seeded with the oldest
\* value, each later value alpha times the element plus (1 - alpha) times
\* the value before, alpha = 2 / (span + 1)
IsEma(line, series, span) ==
  LET alpha == fdiv(float(2), float(span + 1))
  IN /\ Len(line) = Len(series)
     /\ line[1] = series[1]
     /\ \A t \in 2..Len(series) :
          line[t] = fadd(fmul(alpha, series[t]), fmul(fsub(float(1), alpha), line[t - 1]))

\* C24: every result of calculate_macd has histogram = macd - signal
\* exactly, macd being the fast EMA minus the slow EMA of the series and
\* signal the EMA of that macd line, at the most recent bar; each EMA is
\* seeded with the oldest value and uses alpha = 2 / (span + 1).
C24_HistogramIsDifference ==
  \A r \in Reqs :
    (Called(r, "calculate_macd") /\ ~computed[r].value.none)
      => LET macd == computed[r].value.value
             n == Len(Series(r))
             oldest_first == [i \in 1..n |-> float(Series(r)[n + 1 - i])]
             fast == ewm(oldest_first, args[r].parameters[1])
             slow == ewm(oldest_first, args[r].parameters[2])
             line == [i \in 1..n |-> fsub(fast[i], slow[i])]
             signal == ewm(line, args[r].parameters[3])
         IN /\ IsEma(fast, oldest_first, args[r].parameters[1])
            /\ IsEma(slow, oldest_first, args[r].parameters[2])
            /\ IsEma(signal, line, args[r].parameters[3])
            /\ macd.macd = fsub(fast[n], slow[n])
            /\ macd.signal = signal[n]
            /\ macd.histogram = fsub(macd.macd, macd.signal)

\* the default MACD of a moving series, with a histogram other than 0
C24_Witness ==
  \E r \in Reqs :
    /\ Called(r, "calculate_macd")
    /\ args[r].parameters = <<12, 26, 9>>
    /\ Len(Series(r)) >= 35
    /\ ~computed[r].value.none
    /\ computed[r].value.value.histogram.kind = "num"
    /\ computed[r].value.value.histogram.v # 0

\* a >= b on floats: false when either is nan
fge(a, b) ==
  /\ a.kind # "nan" /\ b.kind # "nan"
  /\ IF a.kind = "inf" THEN a.v > 0 \/ (b.kind = "inf" /\ b.v < 0)
     ELSE IF b.kind = "inf" THEN b.v < 0
     ELSE a.v >= b.v

\* the mean of the `period` most recent closes of the series
RecentMean(prices, period) ==
  fdiv(fsum([i \in 1..period |-> float(prices[i])], 1, period), float(period))

\* C25: every result of calculate_bollinger_bands, for any series of length
\* >= period and any k >= 0, has upper >= middle >= lower, middle the mean of
\* the most recent `period` prices, and upper - middle = middle - lower.
C25_BandsOrdered ==
  \A r \in Reqs :
    (Called(r, "calculate_bollinger_bands") /\ ~computed[r].value.none)
      => LET bands == computed[r].value.value
         IN /\ fge(bands.upper, bands.middle)
            /\ fge(bands.middle, bands.lower)
            /\ bands.middle = RecentMean(Series(r), Period(r))
            /\ fsub(bands.upper, bands.middle) = fsub(bands.middle, bands.lower)

\* C26: calculate_all_indicators reports price_change_30d as the percentage
\* change between the most recent price and the price 30 bars back, and as
\* unavailable on a series of fewer than 30 bars; whenever it is reported,
\* the bar 30 bars before the most recent exists and is the one compared
\* against.
C26_ChangeOverThirtyBars ==
  \A r \in Reqs :
    (Called(r, "calculate_all_indicators") /\ ~computed[r].raised)
      => LET prices == Series(r)
             change == computed[r].value.price_change_30d
             back == 30 + 1
         IN /\ Len(prices) < 30 => change.none
            /\ ~change.none
                 => /\ back \in DOMAIN prices
                    /\ change.value =
                         fmul(fsub(fdiv(float(prices[1]), float(prices[back])), float(1)),
                              float(100))

(***************************************************************************)
(* The log against the ledger, and requests running side by side.          *)
(***************************************************************************)

\* BUY quantities minus SELL quantities over the stored operations of a symbol
LoggedQuantity(sym) ==
  LET rows == {i \in DOMAIN operations : operations[i].asset_symbol = sym}
  IN SumOver([i \in rows |->
                IF operations[i].operation_type = "BUY"
                THEN operations[i].quantity
                ELSE -operations[i].quantity], rows)

\* C27: after any sequence of add_operation calls, accepted or rejected, the
\* quantity held of every symbol (0 when no position exists) equals the sum
\* of the BUY quantities minus the sum of the SELL quantities of the
\* operations stored for that symbol; a rejected SELL leaves no operation
\* behind.
C27_LogAgreesWithLedger ==
  (\A r \in Reqs : pc[r] \in {"idle", "done"})
    => \A sym \in Symbols : Held(sym) = LoggedQuantity(sym)

\* what add_operation of `o` leaves and answers when it runs alone on the
\* tables `world`
Alone(world, o) ==
  LET position == get_position(world.positions, o.asset_symbol)
  IN IF sell_rejected(o, position)
     THEN [positions |-> world.positions, snapshot |-> world.snapshot,
           result |-> "ValueError"]
     ELSE LET rows == update_position_from_operation(world.positions, o, position)
              m == calculate_metrics(rows)
          IN IF FitsSnapshot(m)
             THEN [positions |-> rows, snapshot |-> m, result |-> "ok"]
             ELSE [positions |-> rows, snapshot |-> world.snapshot, result |-> "DataError"]

\* the call of request `first` run to its end, then that of `second`
InOrder(start, first, second) ==
  LET a == Alone(start, op[first])
      b == Alone(a, op[second])
  IN [positions |-> b.positions, snapshot |-> b.snapshot,
      results |-> [r \in {first, second} |-> IF r = first THEN a.result ELSE b.result]]

\* the tables before either call: as the call that began first found them
Start ==
  LET earliest == CHOOSE r \in LedgerReqs : \A q \in LedgerReqs : op[r].id <= op[q].id
  IN before[earliest]

BothDone == \A r \in LedgerReqs : call[r] = "add_operation" /\ Done(r)

\* C28: two add_operation calls on the same (portfolio, symbol) issued by
\* concurrent requests end as if run one after the other in some order: the
\* position (quantity, average_price), the snapshot and what each call
\* answered are those of one of the two sequential orders, so that no BUY or
\* SELL is lost, two SELLs never sell more than was held, and two first BUYs
\* end in one position row with no unhandled failure.
C28_Serializable ==
  BothDone
    => \E first \in LedgerReqs, second \in LedgerReqs :
         /\ first # second
         /\ LET serial == InOrder(Start, first, second)
            IN /\ positions = serial.positions
               /\ snapshot = serial.snapshot
               /\ \A r \in LedgerReqs : result[r] = serial.results[r]

(***************************************************************************)
(* The analysis request log and the expiry test, under AnalysisSpec and    *)
(* LookupSpec.                                                             *)
(***************************************************************************)

\* the call of r has returned and had created an AnalysisRequest
Requested(r) == Generates(r) /\ Done(r) /\ args[r].request # 0

\* the call of r stored a new Analysis entry
Stored(r) == attempted[r].put /\ returned[r] # 0 /\ result[r] = "generated"

Returnable ==
  UNION {get_cached_analysis(analyses, now, portfolio_id, asset_symbol, analysis_type) :
           portfolio_id \in Portfolios \cup {NoValue},
           asset_symbol \in {"AAA", NoValue},
           analysis_type \in TypeValues(schema) \cup {NoValue}}

\* C30: Analysis.is_expired and the cache lookup agree at every instant: an
\* entry can be returned by get_cached_analysis if and only if is_expired()
\* is false for it, also at the instant now = expires_at (as right after
\* invalidate_cache set expires_at to the current time).
C30_ExpiryAgrees ==
  \A i \in DOMAIN analyses :
    i \in Returnable <=> ~is_expired(analyses[i], now)

====
